---- MODULE Spec2Model ----
(***************************************************************************)
(* Detection/tracking fusion of video_cut: MultiPersonTracker (tracker.py) *)
(* with its TrackedPerson entities and the IoU association.                *)
(*                                                                         *)
(* Numbers: confidences are kept in hundredths (1.0 = 100, 0.02 = 2),      *)
(* an IoU is kept as the exact fraction num/den with den > 0, and a        *)
(* visual-tracker box (x, y, w, h) is kept in tenths of a pixel so that    *)
(* the int() truncation of update_with_tracker is part of the model.       *)
(***************************************************************************)
EXTENDS Integers, Sequences, FiniteSets, TLC

\* ---------------------------------------------------------------- bounds
MaxFrames == 3          \* frames fed to one session of the main specification
MaxIds == 2             \* identities issued in one session (main specification)
MaxDets == 2            \* detections returned by one detector call
MaxInterval == 3        \* largest redetect_interval tried
MaxLossFrames == 13     \* frames of one session in the track-loss specification
MaxLossIds == 2         \* identities issued in one session there
MaxCadenceFrames == 90  \* frames of the cadence run
MaxDecayFrames == 37    \* frames of one session in the confidence-decay specification
MaxDecayIds == 1        \* identities issued in one session there
MaxSource == 4          \* frames of a video source
MaxSkip == 2            \* largest skip_frames tried
MaxVideoIds == 2        \* identities issued in one process_video run
MaxLongSource == 13     \* frames of the source in the long-run specification
MaxLongIds == 2         \* identities issued in one run there
MaxStubFrames == 10     \* frames of the source in the stubbed end-to-end run
MaxStubIds == 1         \* identities issued in that run
MaxCoord == 2           \* largest box coordinate handed to calc_iou on its own
MaxRawFrames == 4       \* frames of one session fed from the raw detector
MaxRawIds == 2          \* identities issued in one session there
MaxRerunSource == 2     \* frames of the source when two runs are compared
MaxRerunIds == 1        \* identities issued in each of these runs
MaxFreshFrames == 2     \* frames of a session compared with a new instance
MaxFreshIds == 2        \* identities issued in such a session
MaxLiveReads == 3       \* frames read in a run whose termination is examined
MaxMatchFrames == 3     \* frames of a session with overlapping detections
MaxMatchIds == 3        \* identities issued in such a session
MaxPairFrames == 3      \* frames fed to the pair of trackers
MaxPairIds == 2         \* identities issued by each of them

\* ------------------------------------------------------ program constants
LostLimit == 10         \* lost_frames > 10 terminates a track
ConfFull == 100         \* confidence 1.0
ConfFloor == 30         \* confidence floor 0.3
FloorAt == 35           \* advances after which 1.0 - 0.02 n has reached 0.3
ConfStep == 2           \* decay 0.02 per tracker-only advance
IouThresholdNum == 3    \* iou_threshold = 0.3 = 3/10
IouThresholdDen == 10
NmsNum == 45            \* NMS overlap threshold 0.45 of the detector
NmsDen == 100
ConfThreshold == 50     \* detector conf_threshold 0.5
DefaultInterval == 30   \* redetect_interval default
None == 0               \* Python None for best_track_id (ids start at 1)

VARIABLES
    tracked_persons,    \* dict id -> TrackedPerson, iterated in insertion order
    next_id,            \* MultiPersonTracker.next_id
    frame_count,        \* MultiPersonTracker.frame_count
    redetect_interval,  \* constructor argument
    results,            \* list returned by the last process_frame
    yolo_called,        \* the last process_frame invoked detector.detect
    detections,         \* what that detect call returned (<<>> when not called)
    advance_out,        \* id -> outcome of tracker.update for the tracks advanced
    consec_failures,    \* id -> visual-tracker failures in a row (history)
    last_op,            \* the operation that ran last
    init_out,           \* det index -> outcome of tracker.init, for the calls made
    frame_raised,       \* the last process_frame ended in an exception
    pc,                 \* where the process_video activation is
    should_stop,        \* VideoProcessor.should_stop
    is_processing,      \* VideoProcessor.is_processing
    stats,              \* VideoProcessor.stats
    job,                \* the arguments of process_video and the source behind them
    vp_frame_count,     \* local frame_count of process_video: frames read
    elapsed,            \* time.time() - start_time, in ticks
    cap_opened,         \* the source handle was opened (isOpened() was true)
    cap_released,       \* number of cap.release() calls
    writer_opened,      \* a VideoWriter was constructed
    writer_released,    \* number of writer.release() calls
    written,            \* frames handed to writer.write
    preview_calls,      \* calls of preview_callback
    progress_calls,     \* calls of progress_callback
    stop_called,        \* stop() was called since the worker was launched (history)
    exit_reason,        \* how the activation ended
    raised_by,          \* the call whose exception ended it ("none" if none did)
    progress_args,      \* <<>> or the arguments of the last progress_callback call
    prev_outcome,       \* <<>> or what the previous process_video call gave its
                        \* caller, or what the session before a reset() had reached
    twin,               \* a second MultiPersonTracker fed the same frames
    iou_in,             \* <<>> or a pair of boxes handed to calc_iou
    iou_out             \* <<>> or what calc_iou returned for them

tracker_vars == <<tracked_persons, next_id, frame_count, redetect_interval,
                  results, yolo_called, detections, advance_out,
                  consec_failures, init_out, frame_raised>>

video_vars == <<pc, should_stop, is_processing, stats, job, vp_frame_count,
                elapsed, cap_opened, cap_released, writer_opened,
                writer_released, written, preview_calls, progress_calls,
                stop_called, exit_reason, raised_by, progress_args>>

aux_vars == <<prev_outcome, twin, iou_in, iou_out>>

vars == <<tracker_vars, last_op, video_vars, aux_vars>>

\* ---------------------------------------------------------------- helpers
Max(a, b) == IF a >= b THEN a ELSE b
Min(a, b) == IF a <= b THEN a ELSE b

\* int(v) of a value given in tenths: truncation toward zero
IntTrunc(v10) == IF v10 >= 0 THEN v10 \div 10 ELSE -((-v10) \div 10)

MinOf(S) == CHOOSE x \in S : \A y \in S : x <= y

RECURSIVE SortedSeq(_)
SortedSeq(S) == IF S = {} THEN <<>> ELSE <<MinOf(S)>> \o SortedSeq(S \ {MinOf(S)})

\* Iteration order of the dict: insertion order.  Ids are inserted in
\* increasing order (next_id only grows in a session) and del keeps the
\* order of the remaining keys, so the order is ascending id.
DictKeys(tp) == SortedSeq(DOMAIN tp)

EmptyDict == [i \in {} |-> 0]

\* an IoU as a fraction with positive denominator
Frac(n, d) == IF d < 0 THEN [num |-> -n, den |-> -d] ELSE [num |-> n, den |-> d]
FracGT(a, b) == a.num * b.den > b.num * a.den
FracZero == [num |-> 0, den |-> 1]

\* ---------------------------------------------------------------- calc_iou
\* variant: the intersection is divided by the area of the first box
calc_iou_OverFirst(box1, box2) ==
    LET xi1 == Max(box1[1], box2[1])
        yi1 == Max(box1[2], box2[2])
        xi2 == Min(box1[3], box2[3])
        yi2 == Min(box1[4], box2[4])
        inter_area == Max(0, xi2 - xi1) * Max(0, yi2 - yi1)
        box1_area == (box1[3] - box1[1]) * (box1[4] - box1[2])
    IN  IF box1_area = 0 THEN FracZero ELSE Frac(inter_area, box1_area)

\* variant: the sides of the intersection are not clamped at 0
calc_iou_NoClamp(box1, box2) ==
    LET xi1 == Max(box1[1], box2[1])
        yi1 == Max(box1[2], box2[2])
        xi2 == Min(box1[3], box2[3])
        yi2 == Min(box1[4], box2[4])
        inter_area == (xi2 - xi1) * (yi2 - yi1)
        box1_area == (box1[3] - box1[1]) * (box1[4] - box1[2])
        box2_area == (box2[3] - box2[1]) * (box2[4] - box2[2])
        union_area == box1_area + box2_area - inter_area
    IN  IF union_area = 0 THEN FracZero ELSE Frac(inter_area, union_area)

calc_iou(box1, box2) ==
    LET xi1 == Max(box1[1], box2[1])
        yi1 == Max(box1[2], box2[2])
        xi2 == Min(box1[3], box2[3])
        yi2 == Min(box1[4], box2[4])
        inter_area == Max(0, xi2 - xi1) * Max(0, yi2 - yi1)
        box1_area == (box1[3] - box1[1]) * (box1[4] - box1[2])
        box2_area == (box2[3] - box2[1]) * (box2[4] - box2[2])
        union_area == box1_area + box2_area - inter_area
    IN  IF union_area = 0 THEN FracZero ELSE Frac(inter_area, union_area)

\* ------------------------------------------------------------ TrackedPerson
NewTrackedPerson(person_id, bbox) ==
    [id |-> person_id, bbox |-> bbox, confidence |-> ConfFull,
     frames_since_detection |-> 0, lost_frames |-> 0, is_active |-> TRUE]

update_with_detection(p, bbox) ==
    [p EXCEPT !.bbox = bbox, !.confidence = ConfFull,
              !.frames_since_detection = 0, !.lost_frames = 0]

\* cv_bbox (x, y, w, h) -> (x, y, x + w, y + h) after int()
FromCvBbox(cv) ==
    LET x == IntTrunc(cv[1])
        y == IntTrunc(cv[2])
        w == IntTrunc(cv[3])
        h == IntTrunc(cv[4])
    IN  <<x, y, x + w, y + h>>

\* variant: the floor is missing
DecayedConfidence_NoFloor(n) == ConfFull - n * ConfStep

\* line 102, in hundredths
DecayedConfidence(n) == Max(ConfFloor, ConfFull - n * ConfStep)

\* out = [success |-> BOOLEAN, cv_bbox |-> tuple]: what tracker.update returned
update_with_tracker(p, out) ==
    IF out.success
    THEN [p EXCEPT !.bbox = FromCvBbox(out.cv_bbox),
                   !.frames_since_detection = @ + 1,
                   !.confidence = DecayedConfidence(p.frames_since_detection + 1)]
    ELSE [p EXCEPT !.lost_frames = @ + 1,
                   !.is_active = IF p.lost_frames + 1 > LostLimit THEN FALSE ELSE @]

\* ------------------------------------------------------- MultiPersonTracker
Result(id, bbox, conf, method) ==
    [id |-> id, bbox |-> bbox, conf |-> conf, method |-> method]

\* variant: the detector runs on every frame
need_yolo_EveryFrame(fc, interval, tp) == TRUE

\* variant: the zero-track override is missing
need_yolo_NoEmptyOverride(fc, interval, tp) ==
    \/ fc = 1
    \/ fc % interval = 0

\* variant: the cadence is taken from the counter before its increment
need_yolo_StaleCounter(fc, interval, tp) ==
    \/ fc = 1
    \/ (fc - 1) % interval = 0
    \/ Cardinality(DOMAIN tp) = 0

need_yolo(fc, interval, tp) ==
    \/ fc = 1
    \/ fc % interval = 0
    \/ Cardinality(DOMAIN tp) = 0

\* variant: a track of equal IoU replaces the best one found so far
IsBetterMatch_NotStrict(iou, best_iou) ==
    /\ ~FracGT(best_iou, iou)
    /\ FracGT(iou, Frac(IouThresholdNum, IouThresholdDen))

\* line 185: iou > best_iou and iou > self.iou_threshold
IsBetterMatch(iou, best_iou) ==
    /\ FracGT(iou, best_iou)
    /\ FracGT(iou, Frac(IouThresholdNum, IouThresholdDen))

\* the inner loop of the association (lines 181-187): keys in dict order,
\* best_iou starts at 0, a track replaces the best one only when strictly better
RECURSIVE BestTrackScan(_, _, _, _, _, _)
BestTrackScan(keys, det_bbox, tp, matched_track_ids, best_iou, best_track_id) ==
    IF keys = <<>> THEN best_track_id
    ELSE LET track_id == Head(keys)
             iou == calc_iou(det_bbox, tp[track_id].bbox)
         IN  IF track_id \in matched_track_ids
             THEN BestTrackScan(Tail(keys), det_bbox, tp, matched_track_ids,
                                best_iou, best_track_id)
             ELSE IF IsBetterMatch(iou, best_iou)
                  THEN BestTrackScan(Tail(keys), det_bbox, tp, matched_track_ids,
                                     iou, track_id)
                  ELSE BestTrackScan(Tail(keys), det_bbox, tp, matched_track_ids,
                                     best_iou, best_track_id)

\* variant: tracks already matched in this frame are candidates again
BestTrack_Rematch(det_bbox, tp, matched_track_ids) ==
    BestTrackScan(DictKeys(tp), det_bbox, tp, {}, FracZero, None)

BestTrack(det_bbox, tp, matched_track_ids) ==
    BestTrackScan(DictKeys(tp), det_bbox, tp, matched_track_ids, FracZero, None)

\* the state threaded through _process_with_yolo; raised: an exception of a
\* capability call is propagating, inited: the detections tracker.init was
\* called for, advanced: the tracks tracker.update was called on
YoloState(tp, nid) ==
    [tp |-> tp, next_id |-> nid, results |-> <<>>,
     matched_track_ids |-> {}, matched_det_indices |-> {},
     raised |-> FALSE, inited |-> {}, advanced |-> {}]

\* lines 176-201: detections in input order, det_idx counted from 1 here.
\* ini[det_idx] is what tracker.init does for that detection: "ok",
\* "rejected" (it returns False, which lines 78 and 92 do not look at) or
\* "raised" (it throws, after update_with_detection has set the fields).
RECURSIVE MatchDetections(_, _, _, _)
MatchDetections(dets, det_idx, st, ini) ==
    IF det_idx > Len(dets) \/ st.raised THEN st
    ELSE LET det == dets[det_idx]
             best_track_id == BestTrack(det.bbox, st.tp, st.matched_track_ids)
         IN  IF best_track_id # None
             THEN IF ini[det_idx] = "raised"
                  THEN [st EXCEPT
                          !.tp = [@ EXCEPT ![best_track_id] =
                                    update_with_detection(@, det.bbox)],
                          !.inited = @ \cup {det_idx},
                          !.raised = TRUE]
                  ELSE MatchDetections(dets, det_idx + 1,
                         [st EXCEPT
                            !.inited = @ \cup {det_idx},
                            !.tp = [@ EXCEPT ![best_track_id] =
                                      update_with_detection(@, det.bbox)],
                            !.matched_track_ids = @ \cup {best_track_id},
                            !.matched_det_indices = @ \cup {det_idx},
                            !.results = Append(@, Result(best_track_id, det.bbox,
                                                         det.conf, "yolo"))],
                         ini)
             ELSE MatchDetections(dets, det_idx + 1, st, ini)

\* variant: the identity is derived from the number of live tracks
NewId_FromLiveCount(st) == Cardinality(DOMAIN st.tp) + 1

\* line 207: the identity a new track gets
NewId(st) == st.next_id

\* lines 204-213: a new track for every detection left unmatched; when
\* tracker.init throws in TrackedPerson.__init__ the identity is spent and
\* the dict is not assigned
RECURSIVE SpawnTracks(_, _, _, _)
SpawnTracks(dets, det_idx, st, ini) ==
    IF det_idx > Len(dets) \/ st.raised THEN st
    ELSE IF det_idx \notin st.matched_det_indices
         THEN LET det == dets[det_idx]
                  new_id == NewId(st)
              IN  IF ini[det_idx] = "raised"
                  THEN [st EXCEPT !.next_id = @ + 1, !.raised = TRUE,
                                  !.inited = @ \cup {det_idx}]
                  ELSE SpawnTracks(dets, det_idx + 1,
                         [st EXCEPT
                            !.inited = @ \cup {det_idx},
                            !.next_id = @ + 1,
                            !.tp = [i \in DOMAIN st.tp \cup {new_id} |->
                                      IF i = new_id
                                      THEN NewTrackedPerson(new_id, det.bbox)
                                      ELSE st.tp[i]],
                            !.results = Append(@, Result(new_id, det.bbox,
                                                         det.conf, "yolo"))],
                         ini)
         ELSE SpawnTracks(dets, det_idx + 1, st, ini)

\* variant: the loop does not look at matched_track_ids
YoloAdvanceIds_All(st) ==
    IF st.raised THEN {} ELSE DOMAIN st.tp

\* the tracks the loop of lines 216-217 advances: every key of the dict
\* that is not in matched_track_ids
YoloAdvanceIds(st) ==
    IF st.raised THEN {} ELSE DOMAIN st.tp \ st.matched_track_ids

\* lines 216-224, upd: id -> outcome of tracker.update
RECURSIVE AdvanceUnmatched(_, _, _)
AdvanceUnmatched(keys, st, upd) ==
    IF keys = <<>> \/ st.raised THEN st
    ELSE LET track_id == Head(keys)
         IN  IF track_id \in YoloAdvanceIds(st)
             THEN IF upd[track_id].raised
                  THEN [st EXCEPT !.raised = TRUE, !.advanced = @ \cup {track_id}]
                  ELSE
                  LET person == update_with_tracker(st.tp[track_id], upd[track_id])
                      st2 == [st EXCEPT !.tp = [@ EXCEPT ![track_id] = person],
                                        !.advanced = @ \cup {track_id}]
                  IN  IF upd[track_id].success
                      THEN AdvanceUnmatched(Tail(keys),
                             [st2 EXCEPT !.results =
                                Append(@, Result(track_id, person.bbox,
                                                 person.confidence, "tracker"))],
                             upd)
                      ELSE AdvanceUnmatched(Tail(keys), st2, upd)
             ELSE AdvanceUnmatched(Tail(keys), st, upd)

\* the tracks _process_with_trackers advances: the active ones
TrackerAdvanceIds(tp) == {i \in DOMAIN tp : tp[i].is_active}

\* _process_with_trackers, as a fold over the dict keys
RECURSIVE TrackersScan(_, _, _)
TrackersScan(keys, st, upd) ==
    IF keys = <<>> \/ st.raised THEN st
    ELSE LET track_id == Head(keys)
         IN  IF st.tp[track_id].is_active
             THEN IF upd[track_id].raised
                  THEN [st EXCEPT !.raised = TRUE, !.advanced = @ \cup {track_id}]
                  ELSE
                  LET person == update_with_tracker(st.tp[track_id], upd[track_id])
                      st2 == [st EXCEPT !.tp = [@ EXCEPT ![track_id] = person],
                                        !.advanced = @ \cup {track_id}]
                  IN  IF upd[track_id].success
                      THEN TrackersScan(Tail(keys),
                             [st2 EXCEPT !.results =
                                Append(@, Result(track_id, person.bbox,
                                                 person.confidence, "tracker"))],
                             upd)
                      ELSE TrackersScan(Tail(keys), st2, upd)
             ELSE TrackersScan(Tail(keys), st, upd)

process_with_trackers(tp, nid, upd) ==
    TrackersScan(DictKeys(tp), YoloState(tp, nid), upd)

\* _process_with_yolo once detect has returned dets (non-empty), up to the
\* point where the unmatched tracks are advanced
YoloAssociated(tp, nid, dets, ini) ==
    LET st0 == YoloState(tp, nid)
        st1 == IF DOMAIN tp # {} THEN MatchDetections(dets, 1, st0, ini) ELSE st0
    IN  SpawnTracks(dets, 1, st1, ini)

\* variant: a detector call that finds nobody drops the tracks
process_with_yolo_Blank(tp, nid, dets, ini, upd) ==
    IF dets = <<>>
    THEN YoloState(EmptyDict, nid)
    ELSE LET st2 == YoloAssociated(tp, nid, dets, ini)
         IN  AdvanceUnmatched(DictKeys(st2.tp), st2, upd)

process_with_yolo(tp, nid, dets, ini, upd) ==
    IF dets = <<>>
    THEN process_with_trackers(tp, nid, upd)
    ELSE LET st2 == YoloAssociated(tp, nid, dets, ini)
         IN  AdvanceUnmatched(DictKeys(st2.tp), st2, upd)

\* variant: nothing is removed
cleanup_inactive_Skipped(tp) == tp

cleanup_inactive(tp) ==
    [i \in {j \in DOMAIN tp : tp[j].is_active} |-> tp[i]]

\* the tracks on which tracker.update may be called in a frame
AdvanceIds(tp, nid, called, dets, ini) ==
    IF called /\ dets # <<>>
    THEN YoloAdvanceIds(YoloAssociated(tp, nid, dets, ini))
    ELSE TrackerAdvanceIds(tp)

\* variant: the identity counter survives the reset
reset_KeepsCounter(t) ==
    [t EXCEPT !.tracked_persons = EmptyDict, !.frame_count = 0]

\* reset, lines 253-257, on the fields of a tracker t
reset(t) ==
    [t EXCEPT !.tracked_persons = EmptyDict, !.next_id = 1, !.frame_count = 0]

\* process_frame from the incremented counter on: the state it leaves.
\* det_raised: detector.detect throws (line 163).  An exception leaves
\* process_frame before _cleanup_inactive and returns no list.
FrameOutcome(tp, nid, called, det_raised, dets, ini, upd) ==
    LET st == IF called /\ det_raised
              THEN [YoloState(tp, nid) EXCEPT !.raised = TRUE]
              ELSE IF called THEN process_with_yolo(tp, nid, dets, ini, upd)
                   ELSE process_with_trackers(tp, nid, upd)
    IN  IF st.raised
        THEN [st EXCEPT !.results = <<>>]
        ELSE [st EXCEPT !.tp = cleanup_inactive(@)]

\* failures in a row of each live track after the frame; upd holds the
\* outcomes of the tracker.update calls made, raised: the frame ended in an
\* exception
NextConsecFailures(tp2, upd, raised) ==
    [i \in DOMAIN tp2 |->
        LET before == IF i \in DOMAIN consec_failures THEN consec_failures[i] ELSE 0
        IN  IF i \in DOMAIN upd
            THEN IF upd[i].raised THEN before
                 ELSE IF upd[i].success THEN 0 ELSE before + 1
            ELSE IF raised THEN before ELSE 0]

\* ------------------------------------------------------------------ inputs
\* Boxes on one pixel row, 26 wide, 7 apart.  IoU: A-B = B-C = 19/33,
\* A-C = 12/40, which is exactly the threshold 0.3.
BoxA == <<0, 0, 26, 1>>
BoxB == <<7, 0, 33, 1>>
BoxC == <<14, 0, 40, 1>>
DetBoxes == {BoxA, BoxB, BoxC}
DetConfs == {60, 90}

Detection(b, c) == [bbox |-> b, conf |-> c]

SeqsUpTo(S, n) == UNION {[1..k -> S] : k \in 0..n}

\* What YOLODetector.detect can return: scores above conf_threshold, boxes
\* that survived NMS (pairwise overlap at most 0.45), sorted by score,
\* highest first.
DetectorOutputs ==
    {ds \in SeqsUpTo({Detection(b, c) : b \in DetBoxes, c \in DetConfs}, MaxDets) :
        /\ \A k \in 1..Len(ds) : ds[k].conf > ConfThreshold
        /\ \A k \in 1..Len(ds) : \A l \in 1..Len(ds) :
              k < l => /\ ds[k].conf >= ds[l].conf
                       /\ ~FracGT(calc_iou(ds[k].bbox, ds[l].bbox),
                                  Frac(NmsNum, NmsDen))}

\* What tracker.update can return: failure, or success with a box
\* (x, y, w, h) in tenths of a pixel.
\* or the call throws (raised).
TrackFail == [success |-> FALSE, cv_bbox |-> <<0, 0, 0, 0>>, raised |-> FALSE]
TrackOk(cv) == [success |-> TRUE, cv_bbox |-> cv, raised |-> FALSE]
TrackRaise == [success |-> FALSE, cv_bbox |-> <<0, 0, 0, 0>>, raised |-> TRUE]
CvBoxes == {<<0, 0, 260, 10>>, <<145, 3, 265, 17>>}
Outcomes == {TrackFail} \cup {TrackOk(cv) : cv \in CvBoxes}

\* ----------------------------------------------------------------- actions
\* VideoProcessor.stats after __init__ and at the start of process_video;
\* avg_fps is a fraction
ZeroStats ==
    [total_frames |-> 0, yolo_frames |-> 0, tracker_frames |-> 0,
     total_persons |-> 0, avg_fps |-> Frac(0, 1)]

\* no process_video call has been made
NoJob ==
    [n_frames |-> 0, skip_frames |-> 0, output |-> FALSE, progress |-> FALSE,
     preview |-> FALSE, can_open |-> FALSE]

\* a MultiPersonTracker after __init__, as a value
NewTwin == [tracked_persons |-> EmptyDict, next_id |-> 1, frame_count |-> 0,
            results |-> <<>>]

\* the state after VideoProcessor.__init__ / MultiPersonTracker.__init__,
\* redetect_interval from Intervals
InitCore(Intervals) ==
    /\ tracked_persons = EmptyDict
    /\ next_id = 1
    /\ frame_count = 0
    /\ redetect_interval \in Intervals
    /\ results = <<>>
    /\ yolo_called = FALSE
    /\ detections = <<>>
    /\ advance_out = EmptyDict
    /\ consec_failures = EmptyDict
    /\ last_op = "init"
    /\ init_out = EmptyDict
    /\ frame_raised = FALSE
    /\ pc = "idle"
    /\ should_stop = FALSE
    /\ is_processing = FALSE
    /\ stats = ZeroStats
    /\ job = NoJob
    /\ vp_frame_count = 0
    /\ elapsed = 0
    /\ cap_opened = FALSE
    /\ cap_released = 0
    /\ writer_opened = FALSE
    /\ writer_released = 0
    /\ written = 0
    /\ preview_calls = 0
    /\ progress_calls = 0
    /\ stop_called = FALSE
    /\ exit_reason = "none"
    /\ raised_by = "none"
    /\ progress_args = <<>>
    /\ prev_outcome = <<>>
    /\ twin = NewTwin
    /\ iou_out = <<>>

InitWith(Intervals) ==
    /\ InitCore(Intervals)
    /\ iou_in = <<>>

\* What tracker.init can do: succeed, return False, or throw.
InitOk == {"ok"}
InitOutcomes == {"ok", "rejected", "raised"}

\* process_frame on the tracker variables.  The detector output (or its
\* exception), the outcome of every tracker.init and of every tracker.update
\* are inputs.
TrackerFrame(DetSet, OutSet, IniSet, DetRaise, maxIds) ==
    \E fc \in {frame_count + 1} :
    \E called \in {need_yolo(fc, redetect_interval, tracked_persons)} :
    \E det_raised \in (IF called THEN DetRaise ELSE {FALSE}) :
    \E dets \in (IF called /\ ~det_raised THEN DetSet ELSE {<<>>}) :
    \E ini \in [1..Len(dets) -> IniSet] :
        /\ YoloAssociated(tracked_persons, next_id, dets, ini).next_id <= maxIds + 1
        /\ \E upd \in [AdvanceIds(tracked_persons, next_id, called, dets, ini) -> OutSet] :
             \E out \in {FrameOutcome(tracked_persons, next_id, called, det_raised,
                                      dets, ini, upd)} :
                 /\ frame_count' = fc
                 /\ tracked_persons' = out.tp
                 /\ next_id' = out.next_id
                 /\ results' = out.results
                 /\ yolo_called' = called
                 /\ detections' = dets
                 /\ init_out' = [k \in out.inited |-> ini[k]]
                 /\ advance_out' = [i \in out.advanced |-> upd[i]]
                 /\ consec_failures' =
                        NextConsecFailures(out.tp, [i \in out.advanced |-> upd[i]],
                                           out.raised)
                 /\ frame_raised' = out.raised
                 /\ UNCHANGED redetect_interval

\* process_frame called directly on a MultiPersonTracker whose capabilities
\* do not throw
Step(DetSet, OutSet, maxFrames, maxIds) ==
    /\ frame_count < maxFrames
    /\ TrackerFrame(DetSet, OutSet, InitOk, {FALSE}, maxIds)
    /\ last_op' = "process_frame"
    /\ UNCHANGED <<video_vars, aux_vars>>

Init == InitWith(1..MaxInterval)

ProcessFrame == Step(DetectorOutputs, Outcomes, MaxFrames, MaxIds)

\* the fields of the tracker that reset works on
Fields ==
    [tracked_persons |-> tracked_persons, next_id |-> next_id,
     frame_count |-> frame_count]

Reset ==
    /\ \E t \in {reset(Fields)} :
          /\ tracked_persons' = t.tracked_persons
          /\ next_id' = t.next_id
          /\ frame_count' = t.frame_count
    /\ results' = <<>>
    /\ yolo_called' = FALSE
    /\ detections' = <<>>
    /\ advance_out' = EmptyDict
    /\ consec_failures' = EmptyDict
    /\ init_out' = EmptyDict
    /\ frame_raised' = FALSE
    /\ last_op' = "reset"
    /\ UNCHANGED <<redetect_interval, video_vars, aux_vars>>

Next == ProcessFrame \/ Reset

Spec == Init /\ [][Next]_vars

\* ------------------------------------------------------- calc_iou alone
\* calc_iou called on any two boxes with integer coordinates up to
\* MaxCoord, inverted and degenerate ones included, in both orders.
IouBoxes == {<<x1, y1, x2, y2>> : x1 \in 0..MaxCoord, y1 \in 0..MaxCoord,
                                  x2 \in 0..MaxCoord, y2 \in 0..MaxCoord}

InitIou ==
    /\ InitCore({DefaultInterval})
    /\ iou_in \in IouBoxes \X IouBoxes

CalcIou ==
    /\ iou_in # <<>>
    /\ iou_out = <<>>
    /\ iou_out' = <<[ab |-> calc_iou(iou_in[1], iou_in[2]),
                     ba |-> calc_iou(iou_in[2], iou_in[1])]>>
    /\ last_op' = "calc_iou"
    /\ UNCHANGED <<tracker_vars, video_vars, prev_outcome, twin, iou_in>>

NextIou == CalcIou

SpecIou == InitIou /\ [][NextIou]_vars

\* ------------------------------------------------------- two trackers
\* What the visual-tracker stub answers for track i when the first
\* instance did not ask: failure.
StubOutcomes(upd, ids) ==
    [i \in ids |-> IF i \in DOMAIN upd THEN upd[i] ELSE TrackFail]

\* variant: next_id is a class attribute, one counter for all instances
TwinFrame_ClassCounter(tw, dets, upd) ==
    LET fc == tw.frame_count + 1
        called == need_yolo(fc, redetect_interval, tw.tracked_persons)
        seen == IF called THEN dets ELSE <<>>
        out == FrameOutcome(tw.tracked_persons, next_id', called, FALSE, seen,
                            [k \in 1..Len(seen) |-> "ok"],
                            StubOutcomes(upd, 1..(next_id' + Len(seen))))
    IN  [tracked_persons |-> out.tp, next_id |-> out.next_id,
         frame_count |-> fc, results |-> out.results]

\* process_frame of the second instance on the frame the first one has just
\* processed: the stubs give it the same detections and the same
\* tracker.update outcomes; it works on its own fields
TwinFrame(tw, dets, upd) ==
    LET fc == tw.frame_count + 1
        called == need_yolo(fc, redetect_interval, tw.tracked_persons)
        seen == IF called THEN dets ELSE <<>>
        out == FrameOutcome(tw.tracked_persons, tw.next_id, called, FALSE, seen,
                            [k \in 1..Len(seen) |-> "ok"],
                            StubOutcomes(upd, 1..(tw.next_id + Len(seen))))
    IN  [tracked_persons |-> out.tp, next_id |-> out.next_id,
         frame_count |-> fc, results |-> out.results]

\* both instances process the same frame
PairFrame ==
    /\ frame_count < MaxPairFrames
    /\ TrackerFrame(DetectorOutputs, Outcomes, InitOk, {FALSE}, MaxPairIds)
    /\ last_op' = "process_frame"
    /\ twin' = TwinFrame(twin, detections', advance_out')
    /\ UNCHANGED <<video_vars, prev_outcome, iou_in, iou_out>>

\* reset() on both instances
PairReset ==
    /\ tracked_persons' = EmptyDict
    /\ next_id' = 1
    /\ frame_count' = 0
    /\ results' = <<>>
    /\ yolo_called' = FALSE
    /\ detections' = <<>>
    /\ advance_out' = EmptyDict
    /\ consec_failures' = EmptyDict
    /\ init_out' = EmptyDict
    /\ frame_raised' = FALSE
    /\ last_op' = "reset"
    /\ twin' = [twin EXCEPT !.tracked_persons = EmptyDict, !.next_id = 1,
                            !.frame_count = 0]
    /\ UNCHANGED <<redetect_interval, video_vars, prev_outcome, iou_in, iou_out>>

NextPair == PairFrame \/ PairReset

SpecPair == Init /\ [][NextPair]_vars

\* ------------------------------------------------- long sessions (track loss)
\* The same operations over sessions long enough for a track to be lost:
\* the detector sees nobody or one person at BoxA, a visual tracker fails or
\* reports BoxA.
LossDetectorOutputs == {<<>>, <<Detection(BoxA, 90)>>}
LossOutcomes == {TrackFail, TrackOk(<<0, 0, 260, 10>>)}

ProcessFrameLoss == Step(LossDetectorOutputs, LossOutcomes, MaxLossFrames, MaxLossIds)

NextLoss == ProcessFrameLoss \/ Reset

SpecLoss == Init /\ [][NextLoss]_vars

\* ------------------------------------------------- reset against a new instance
\* reset() on the first instance, while the second one is replaced by a
\* newly constructed MultiPersonTracker; prev_outcome keeps how far the
\* session that is given up had come
ResetVsNew ==
    /\ \E t \in {reset(Fields)} :
          /\ tracked_persons' = t.tracked_persons
          /\ next_id' = t.next_id
          /\ frame_count' = t.frame_count
    /\ results' = <<>>
    /\ yolo_called' = FALSE
    /\ detections' = <<>>
    /\ advance_out' = EmptyDict
    /\ consec_failures' = EmptyDict
    /\ init_out' = EmptyDict
    /\ frame_raised' = FALSE
    /\ last_op' = "reset"
    /\ twin' = NewTwin
    /\ prev_outcome' = <<[frames |-> frame_count, issued |-> next_id - 1,
                          live |-> DOMAIN tracked_persons]>>
    /\ UNCHANGED <<redetect_interval, video_vars, iou_in, iou_out>>

\* both instances process the same frame; a visual tracker fails or
\* reports BoxA
FreshFrame ==
    /\ frame_count < MaxFreshFrames
    /\ TrackerFrame(DetectorOutputs, LossOutcomes, InitOk, {FALSE}, MaxFreshIds)
    /\ last_op' = "process_frame"
    /\ twin' = TwinFrame(twin, detections', advance_out')
    /\ UNCHANGED <<video_vars, prev_outcome, iou_in, iou_out>>

NextFresh == FreshFrame \/ ResetVsNew

SpecFresh == Init /\ [][NextFresh]_vars

\* ------------------------------------------------- overlapping detections
\* Two persons half a box apart: IoU(BoxA, BoxD) = 13/39, above the
\* matching threshold 0.3 and below the NMS threshold 0.45, so the detector
\* can report both and each of them overlaps a track at the other.
BoxD == <<13, 0, 39, 1>>

MatchDetectorOutputs ==
    {<<>>, <<Detection(BoxA, 90)>>, <<Detection(BoxD, 90)>>,
     <<Detection(BoxA, 90), Detection(BoxD, 60)>>,
     <<Detection(BoxD, 90), Detection(BoxA, 60)>>}

ProcessFrameMatch ==
    Step(MatchDetectorOutputs, LossOutcomes, MaxMatchFrames, MaxMatchIds)

NextMatch == ProcessFrameMatch \/ Reset

SpecMatch == Init /\ [][NextMatch]_vars

\* ------------------------------------------------------- YOLODetector
\* The frame: orig_w x orig_h pixels.
ImageW == 40
ImageH == 1

\* np.clip(v, 0, hi), v in tenths of a pixel
ClipTenths(v10, hi) == Max(0, Min(v10, hi * 10))

\* _postprocess, lines 134-146, for one candidate box (x1, y1, x2, y2)
\* mapped back to the frame, in tenths of a pixel: clipped to the frame,
\* then truncated
PostprocessBox(raw) ==
    <<IntTrunc(ClipTenths(raw[1], ImageW)), IntTrunc(ClipTenths(raw[2], ImageH)),
      IntTrunc(ClipTenths(raw[3], ImageW)), IntTrunc(ClipTenths(raw[4], ImageH))>>

\* Candidates the network can put out: a person at BoxA, a sliver less than
\* a pixel wide, a person beyond the right edge of the frame.
RawBoxes == {<<0, 0, 260, 10>>, <<262, 0, 268, 10>>, <<450, 0, 710, 10>>}

\* What detect returns for at most one candidate above the threshold
RawDetectorOutputs ==
    {<<>>} \cup {<<Detection(PostprocessBox(raw), 90)>> : raw \in RawBoxes}

ProcessFrameRaw ==
    Step(RawDetectorOutputs, LossOutcomes, MaxRawFrames, MaxRawIds)

NextRaw == ProcessFrameRaw \/ Reset

SpecRaw == Init /\ [][NextRaw]_vars

\* ------------------------------------------------------ redetection cadence
\* The stubs of the cadence scenario: every detect call returns exactly one
\* detection whose IoU with every existing track exceeds the threshold, and
\* every tracker.update succeeds.
CadenceDetectorOutputs ==
    {<<Detection(b, c)>> : b \in {x \in DetBoxes :
                                    \A i \in DOMAIN tracked_persons :
                                       FracGT(calc_iou(x, tracked_persons[i].bbox),
                                              Frac(IouThresholdNum, IouThresholdDen))},
                           c \in DetConfs}
CadenceOutcomes == {TrackOk(cv) : cv \in CvBoxes}

InitCadence == InitWith((2..MaxInterval) \cup {DefaultInterval})

ProcessFrameCadence ==
    Step(CadenceDetectorOutputs, CadenceOutcomes, MaxCadenceFrames, MaxIds)

NextCadence == ProcessFrameCadence

SpecCadence == InitCadence /\ [][NextCadence]_vars

\* ------------------------------------------------- long tracker-only stretches
\* One session at the default interval, long enough for a track to go more
\* than FloorAt frames without a confirmation.
InitDecay == InitWith({DefaultInterval})

ProcessFrameDecay ==
    Step(LossDetectorOutputs, LossOutcomes, MaxDecayFrames, MaxDecayIds)

NextDecay == ProcessFrameDecay

SpecDecay == InitDecay /\ [][NextDecay]_vars

\* ------------------------------------------------------------ VideoProcessor
\* The arguments process_video is called with, and the source behind
\* input_path: it cannot be opened, or it holds n_frames frames.
VideoJobs ==
    {[n_frames |-> n, skip_frames |-> k, output |-> o, progress |-> g,
      preview |-> v, can_open |-> c] :
        n \in 0..MaxSource, k \in 0..MaxSkip, o \in BOOLEAN, g \in BOOLEAN,
        v \in BOOLEAN, c \in BOOLEAN}

\* In a run the detector sees nobody or one person at BoxA (or throws); a
\* visual tracker fails, reports BoxA or throws.
VideoDetectorOutputs == LossDetectorOutputs
VideoOutcomes == LossOutcomes \cup {TrackRaise}

InitVideo == InitWith({2, DefaultInterval})

\* MainWindow._start_processing: a processor and a worker thread are
\* created, the stop button is enabled and the thread is started; the worker
\* has not executed anything of process_video yet
StartWith(Jobs) ==
    /\ pc = "idle"
    /\ job' \in {j \in Jobs : ~j.can_open => j.n_frames = 0}
    /\ pc' = "launched"
    /\ last_op' = "start"
    /\ UNCHANGED <<tracker_vars, should_stop, is_processing, stats,
                   vp_frame_count, elapsed, cap_opened, cap_released,
                   writer_opened, writer_released, written, preview_calls,
                   progress_calls, stop_called, exit_reason, raised_by,
                   progress_args, aux_vars>>

StartProcessing == StartWith(VideoJobs)

\* VideoProcessor.stop, from the thread of the stop button or of closeEvent,
\* while the worker is running
Stop ==
    /\ pc \in {"launched", "running"}
    /\ should_stop' = TRUE
    /\ stop_called' = TRUE
    /\ last_op' = "stop"
    /\ UNCHANGED <<tracker_vars, pc, is_processing, stats, job, vp_frame_count,
                   elapsed, cap_opened, cap_released, writer_opened,
                   writer_released, written, preview_calls, progress_calls,
                   exit_reason, raised_by,
                   progress_args, aux_vars>>

\* variant: the sink is opened before the source is checked
WriterOpened_BeforeSource(j) == j.output

\* lines 79-83: a VideoWriter is constructed when output_path is given, and
\* only after the source has been found open
WriterOpened(j) == j.can_open /\ j.output

\* variant: the statistics of the previous call are kept
ResetStats_Kept(st) == st

\* lines 62-68: self.stats is replaced by a dict of zeros
ResetStats(st) == ZeroStats

\* process_video, lines 58-86, run by the worker: the flags, the reset of
\* the tracker and of the statistics, the opening of the source and of the
\* sink.  A source that cannot be opened raises ValueError at line 72.
BeginProcessVideo ==
    /\ pc = "launched"
    /\ is_processing' = TRUE
    /\ should_stop' = FALSE
    /\ \E t \in {reset(Fields)} :
          /\ tracked_persons' = t.tracked_persons
          /\ next_id' = t.next_id
          /\ frame_count' = t.frame_count
    /\ stats' = ResetStats(stats)
    /\ cap_opened' = job.can_open
    /\ writer_opened' = WriterOpened(job)
    /\ vp_frame_count' = 0
    /\ elapsed' = 0
    /\ pc' = IF job.can_open THEN "running" ELSE "raised"
    /\ exit_reason' = IF job.can_open THEN "none" ELSE "open_failed"
    /\ raised_by' = IF job.can_open THEN "none" ELSE "open"
    /\ last_op' = "begin"
    /\ UNCHANGED <<redetect_interval, results, yolo_called, detections,
                   advance_out, consec_failures, init_out, frame_raised, job,
                   cap_released, writer_released, written, preview_calls,
                   progress_calls, stop_called, progress_args, aux_vars>>

\* variant: the exception is swallowed and the statistics are returned
Finally_Returns(reason, raising) ==
    /\ cap_released' = cap_released + 1
    /\ writer_released' = writer_released + (IF writer_opened THEN 1 ELSE 0)
    /\ is_processing' = FALSE
    /\ pc' = "returned"
    /\ exit_reason' = reason

\* variant: only the source is released
Finally_SourceOnly(reason, raising) ==
    /\ cap_released' = cap_released + 1
    /\ writer_released' = writer_released
    /\ is_processing' = FALSE
    /\ pc' = IF raising THEN "raised" ELSE "returned"
    /\ exit_reason' = reason

\* the finally block, lines 127-130, and the way process_video is left
Finally(reason, raising) ==
    /\ cap_released' = cap_released + 1
    /\ writer_released' = writer_released + (IF writer_opened THEN 1 ELSE 0)
    /\ is_processing' = FALSE
    /\ pc' = IF raising THEN "raised" ELSE "returned"
    /\ exit_reason' = reason

\* variant: the loop does not look at the flag
LoopCondition_Always == TRUE

\* line 89: while not self.should_stop
LoopCondition == ~should_stop

\* line 89 finds should_stop set: the loop ends, process_video returns stats
LoopExit ==
    /\ pc = "running"
    /\ ~LoopCondition
    /\ Finally("stop", FALSE)
    /\ last_op' = "loop_exit"
    /\ UNCHANGED <<tracker_vars, should_stop, stats, job, vp_frame_count,
                   elapsed, cap_opened, writer_opened, written, preview_calls,
                   progress_calls, stop_called, raised_by,
                   progress_args, aux_vars>>

\* lines 90-92: cap.read() reports that no frame is left
ReadEnd ==
    /\ pc = "running"
    /\ LoopCondition
    /\ vp_frame_count = job.n_frames
    /\ Finally("eof", FALSE)
    /\ last_op' = "read_end"
    /\ UNCHANGED <<tracker_vars, should_stop, stats, job, vp_frame_count,
                   elapsed, cap_opened, writer_opened, written, preview_calls,
                   progress_calls, stop_called, raised_by,
                   progress_args, aux_vars>>

\* variant: one frame in skip_frames is processed
Skipped_PeriodK(fc, skip_frames) == skip_frames > 0 /\ (fc - 1) % skip_frames # 0

\* variant: the position is counted from 1
Skipped_OneBased(fc, skip_frames) == skip_frames > 0 /\ fc % (skip_frames + 1) # 0

\* lines 90-92: cap.read() fails before the end of the source (a damaged
\* file, a device that went away); it reports that like the end, ret = False
ReadFail ==
    /\ pc = "running"
    /\ LoopCondition
    /\ vp_frame_count < job.n_frames
    /\ Finally("read_failed", FALSE)
    /\ last_op' = "read_fail"
    /\ UNCHANGED <<tracker_vars, should_stop, stats, job, vp_frame_count,
                   elapsed, cap_opened, writer_opened, written, preview_calls,
                   progress_calls, stop_called, raised_by,
                   progress_args, aux_vars>>

\* line 96: the frame just read (the frame_count-th) is not processed
Skipped(fc, skip_frames) == skip_frames > 0 /\ (fc - 1) % (skip_frames + 1) # 0

\* lines 89-97: a frame is read and discarded
SkipFrame ==
    /\ pc = "running"
    /\ LoopCondition
    /\ vp_frame_count < job.n_frames
    /\ Skipped(vp_frame_count + 1, job.skip_frames)
    /\ vp_frame_count' = vp_frame_count + 1
    /\ last_op' = "skip"
    /\ UNCHANGED <<tracker_vars, pc, should_stop, is_processing, stats, job,
                   elapsed, cap_opened, cap_released, writer_opened,
                   writer_released, written, preview_calls, progress_calls,
                   stop_called, exit_reason, raised_by,
                   progress_args, aux_vars>>

\* variant: the entries are counted, not the frames
CountedStats_PerEntry(st, rs, nid) ==
    LET yolo_count == Cardinality({k \in 1..Len(rs) : rs[k].method = "yolo"})
        tracker_count == Cardinality({k \in 1..Len(rs) : rs[k].method = "tracker"})
    IN  [st EXCEPT
           !.yolo_frames = @ + yolo_count,
           !.tracker_frames = @ + tracker_count,
           !.total_persons = nid - 1]

\* variant: total_persons is the number of persons reported in the frame
CountedStats_Reported(st, rs, nid) ==
    LET yolo_count == Cardinality({k \in 1..Len(rs) : rs[k].method = "yolo"})
        tracker_count == Cardinality({k \in 1..Len(rs) : rs[k].method = "tracker"})
    IN  [st EXCEPT
           !.yolo_frames = @ + (IF yolo_count > 0 THEN 1 ELSE 0),
           !.tracker_frames = @ + (IF tracker_count > 0 /\ yolo_count = 0
                                   THEN 1 ELSE 0),
           !.total_persons = Cardinality({rs[k].id : k \in 1..Len(rs)})]

\* variant: tracker_frames counts every frame with a tracker entry
CountedStats_Both(st, rs, nid) ==
    LET yolo_count == Cardinality({k \in 1..Len(rs) : rs[k].method = "yolo"})
        tracker_count == Cardinality({k \in 1..Len(rs) : rs[k].method = "tracker"})
    IN  [st EXCEPT
           !.yolo_frames = @ + (IF yolo_count > 0 THEN 1 ELSE 0),
           !.tracker_frames = @ + (IF tracker_count > 0 THEN 1 ELSE 0),
           !.total_persons = nid - 1]

\* lines 105-109: the statistics after a frame whose process_frame returned rs
CountedStats(st, rs, nid) ==
    LET yolo_count == Cardinality({k \in 1..Len(rs) : rs[k].method = "yolo"})
        tracker_count == Cardinality({k \in 1..Len(rs) : rs[k].method = "tracker"})
    IN  [st EXCEPT
           !.yolo_frames = @ + (IF yolo_count > 0 THEN 1 ELSE 0),
           !.tracker_frames = @ + (IF tracker_count > 0 /\ yolo_count = 0
                                   THEN 1 ELSE 0),
           !.total_persons = nid - 1]

\* the calls after process_frame that can throw, for the current job
Faults ==
    {"none"} \cup (IF writer_opened THEN {"write"} ELSE {})
             \cup (IF job.preview THEN {"preview"} ELSE {})
             \cup (IF job.progress THEN {"progress"} ELSE {})

\* the capability call whose exception ended a process_frame, read off what
\* was observed of the frame
FrameRaisedBy(ini, upd) ==
    IF \E k \in DOMAIN ini : ini[k] = "raised" THEN "init"
    ELSE IF \E i \in DOMAIN upd : upd[i].raised THEN "update"
    ELSE "detect"

\* variant: the first argument is the number of frames processed
ProgressArgs_Processed(current, total, st) ==
    [current |-> st.total_frames, total |-> total, stats |-> st]

\* line 124: progress_callback(frame_count, total_frames, self.stats.copy())
ProgressArgs(current, total, st) ==
    [current |-> current, total |-> total, stats |-> st]

FaultKinds == {"none", "write", "preview", "progress"}

\* lines 89-124: a frame is read and processed.  An exception of the
\* detector, of a visual tracker, of writer.write or of a callback leaves
\* through the finally block.  The sets bound what the capabilities do.
ProcessOneWith(DetSet, OutSet, IniSet, DetRaise, FaultSet, maxIds) ==
    /\ pc = "running"
    /\ LoopCondition
    /\ vp_frame_count < job.n_frames
    /\ ~Skipped(vp_frame_count + 1, job.skip_frames)
    /\ vp_frame_count' = vp_frame_count + 1
    /\ TrackerFrame(DetSet, OutSet, IniSet, DetRaise, maxIds)
    /\ last_op' = "process_frame"
    /\ UNCHANGED <<should_stop, job, cap_opened, writer_opened, stop_called,
                   aux_vars>>
    /\ IF frame_raised'
       THEN /\ stats' = [stats EXCEPT !.total_frames = @ + 1]
            /\ Finally("exception", TRUE)
            /\ raised_by' = FrameRaisedBy(init_out', advance_out')
            /\ UNCHANGED <<elapsed, written, preview_calls, progress_calls,
                           progress_args>>
       ELSE \E fault \in Faults \cap FaultSet :
            \E dt \in {0, 1} :
            \E counted \in {CountedStats([stats EXCEPT !.total_frames = @ + 1],
                                         results', next_id')} :
              /\ written' = written + (IF writer_opened /\ fault # "write"
                                       THEN 1 ELSE 0)
              /\ preview_calls' = preview_calls
                                     + (IF job.preview /\ fault # "write" THEN 1 ELSE 0)
              /\ progress_calls' = progress_calls
                                      + (IF job.progress /\ fault \in {"none", "progress"}
                                         THEN 1 ELSE 0)
              /\ elapsed' = elapsed + dt
              /\ stats' = IF job.progress /\ fault \in {"none", "progress"}
                                          /\ elapsed + dt > 0
                          THEN [counted EXCEPT !.avg_fps =
                                   Frac(counted.total_frames, elapsed + dt)]
                          ELSE counted
              /\ progress_args' =
                    IF job.progress /\ fault \in {"none", "progress"}
                    THEN <<ProgressArgs(vp_frame_count + 1, job.n_frames, stats')>>
                    ELSE progress_args
              /\ raised_by' = fault
              /\ IF fault = "none"
                 THEN UNCHANGED <<pc, is_processing, cap_released,
                                  writer_released, exit_reason>>
                 ELSE Finally("exception", TRUE)

ProcessOne ==
    ProcessOneWith(VideoDetectorOutputs, VideoOutcomes, InitOutcomes, BOOLEAN,
                   FaultKinds, MaxVideoIds)

NextVideo ==
    \/ StartProcessing
    \/ Stop
    \/ BeginProcessVideo
    \/ LoopExit
    \/ ReadEnd
    \/ ReadFail
    \/ SkipFrame
    \/ ProcessOne

SpecVideo == InitVideo /\ [][NextVideo]_vars

\* ------------------------------------------------------- a long run
\* One process_video call on a source long enough for a track to be lost,
\* without sink or callbacks, with capabilities that do not throw.
LongJobs ==
    {[n_frames |-> MaxLongSource, skip_frames |-> 0, output |-> FALSE,
      progress |-> FALSE, preview |-> FALSE, can_open |-> TRUE]}

InitVideoLong == InitWith({DefaultInterval})

StartProcessingLong == StartWith(LongJobs)

ProcessOneLong ==
    ProcessOneWith(LossDetectorOutputs, LossOutcomes, InitOk, {FALSE},
                   {"none"}, MaxLongIds)

NextVideoLong ==
    \/ StartProcessingLong
    \/ Stop
    \/ BeginProcessVideo
    \/ LoopExit
    \/ ReadEnd
    \/ ProcessOneLong

SpecVideoLong == InitVideoLong /\ [][NextVideoLong]_vars

\* ------------------------------------------------ stubbed end-to-end run
\* process_video over a source of F frames, F below the default interval,
\* with a detector stub that reports one person at BoxA and a visual
\* tracker stub that always succeeds.
StubJobs ==
    {[n_frames |-> n, skip_frames |-> 0, output |-> FALSE, progress |-> FALSE,
      preview |-> FALSE, can_open |-> TRUE] : n \in 1..MaxStubFrames}

InitVideoStub == InitWith({DefaultInterval})

StartProcessingStub == StartWith(StubJobs)

ProcessOneStub ==
    ProcessOneWith({<<Detection(BoxA, 90)>>}, CadenceOutcomes, InitOk, {FALSE},
                   {"none"}, MaxStubIds)

NextVideoStub ==
    \/ StartProcessingStub
    \/ BeginProcessVideo
    \/ ReadEnd
    \/ ProcessOneStub

SpecVideoStub == InitVideoStub /\ [][NextVideoStub]_vars

\* ------------------------------------------------------ one run after another
\* What the caller of process_video has in hand when the call is over: the
\* arguments it passed, whether the call returned or raised and what, the
\* statistics, what the callbacks were given and the frames in the sink.
Observed ==
    [job |-> job, left |-> pc, raised_by |-> raised_by, stats |-> stats,
     progress_calls |-> progress_calls, progress_args |-> progress_args,
     preview_calls |-> preview_calls, written |-> written]

\* MainWindow._on_finished / _on_error re-enable the start button, and
\* _start_processing builds a new VideoProcessor (and with it a new
\* MultiPersonTracker) and a new worker.  prev_outcome keeps what the run
\* just finished gave its caller, and how it ended.
StartAgainWith(Jobs) ==
    /\ pc \in {"returned", "raised"}
    /\ prev_outcome = <<>>
    /\ prev_outcome' = <<[how |-> exit_reason, observed |-> Observed]>>
    /\ job' \in {j \in Jobs : ~j.can_open => j.n_frames = 0}
    /\ pc' = "launched"
    /\ last_op' = "start"
    /\ tracked_persons' = EmptyDict
    /\ next_id' = 1
    /\ frame_count' = 0
    /\ results' = <<>>
    /\ yolo_called' = FALSE
    /\ detections' = <<>>
    /\ advance_out' = EmptyDict
    /\ consec_failures' = EmptyDict
    /\ init_out' = EmptyDict
    /\ frame_raised' = FALSE
    /\ should_stop' = FALSE
    /\ is_processing' = FALSE
    /\ stats' = ZeroStats
    /\ vp_frame_count' = 0
    /\ elapsed' = 0
    /\ cap_opened' = FALSE
    /\ cap_released' = 0
    /\ writer_opened' = FALSE
    /\ writer_released' = 0
    /\ written' = 0
    /\ preview_calls' = 0
    /\ progress_calls' = 0
    /\ stop_called' = FALSE
    /\ exit_reason' = "none"
    /\ raised_by' = "none"
    /\ progress_args' = <<>>
    /\ UNCHANGED <<redetect_interval, twin, iou_in, iou_out>>

\* Two runs on sources of at most MaxRerunSource frames, with a sink and a
\* progress callback; the detector sees nobody or one person, or throws.
RerunJobs ==
    {[n_frames |-> n, skip_frames |-> 0, output |-> TRUE, progress |-> TRUE,
      preview |-> FALSE, can_open |-> c] : n \in 0..MaxRerunSource, c \in BOOLEAN}

InitVideoRerun == InitWith({DefaultInterval})

StartProcessingRerun == StartWith(RerunJobs)

StartAgain == StartAgainWith(RerunJobs)

ProcessOneRerun ==
    ProcessOneWith(VideoDetectorOutputs, LossOutcomes, InitOk, BOOLEAN,
                   {"none"}, MaxRerunIds)

NextVideoRerun ==
    \/ StartProcessingRerun
    \/ StartAgain
    \/ Stop
    \/ BeginProcessVideo
    \/ LoopExit
    \/ ReadEnd
    \/ ReadFail
    \/ ProcessOneRerun

SpecVideoRerun == InitVideoRerun /\ [][NextVideoRerun]_vars

\* ------------------------------------------- a second call on one processor
\* process_video is called again on the VideoProcessor whose call has
\* returned or raised: the object keeps its fields (flags, statistics,
\* tracker); source, sink and the loop counter are locals of the new call.
\* prev_outcome keeps what the call just finished gave its caller.
CallAgainWith(Jobs) ==
    /\ pc \in {"returned", "raised"}
    /\ prev_outcome = <<>>
    /\ prev_outcome' = <<[how |-> exit_reason, observed |-> Observed]>>
    /\ job' \in {j \in Jobs : ~j.can_open => j.n_frames = 0}
    /\ pc' = "launched"
    /\ last_op' = "start"
    /\ vp_frame_count' = 0
    /\ elapsed' = 0
    /\ cap_opened' = FALSE
    /\ cap_released' = 0
    /\ writer_opened' = FALSE
    /\ writer_released' = 0
    /\ written' = 0
    /\ preview_calls' = 0
    /\ progress_calls' = 0
    /\ stop_called' = FALSE
    /\ exit_reason' = "none"
    /\ raised_by' = "none"
    /\ progress_args' = <<>>
    /\ UNCHANGED <<tracker_vars, should_stop, is_processing, stats, twin,
                   iou_in, iou_out>>

CallAgain == CallAgainWith(RerunJobs)

NextVideoReuse ==
    \/ StartProcessingRerun
    \/ CallAgain
    \/ Stop
    \/ BeginProcessVideo
    \/ LoopExit
    \/ ReadEnd
    \/ ReadFail
    \/ ProcessOneRerun

SpecVideoReuse == InitVideoRerun /\ [][NextVideoReuse]_vars

\* ------------------------------------------------------------- termination
\* A run whose capabilities, callbacks and I/O calls all return.  The source
\* has 0..2 frames, or it never ends: it then holds more frames than the
\* MaxLiveReads the run is followed for.
Endless == MaxLiveReads + 1

LiveJobs ==
    {[n_frames |-> n, skip_frames |-> k, output |-> FALSE, progress |-> FALSE,
      preview |-> FALSE, can_open |-> TRUE] :
        n \in (0..(MaxLiveReads - 1)) \cup {Endless}, k \in 0..1}

InitVideoLive == InitWith({2})

StartProcessingLive == StartWith(LiveJobs)

SkipFrameLive ==
    /\ vp_frame_count < MaxLiveReads
    /\ SkipFrame

ProcessOneLive ==
    /\ vp_frame_count < MaxLiveReads
    /\ ProcessOneWith(LossDetectorOutputs, LossOutcomes, InitOk, {FALSE},
                      {"none"}, MaxLiveReads)

\* the steps of the worker thread inside process_video
Worker ==
    \/ BeginProcessVideo
    \/ LoopExit
    \/ ReadEnd
    \/ SkipFrameLive
    \/ ProcessOneLive

NextVideoLive ==
    \/ StartProcessingLive
    \/ Stop
    \/ Worker

\* the worker thread, once started, is scheduled again and again
SpecVideoLive == InitVideoLive /\ [][NextVideoLive]_vars /\ WF_vars(Worker)

\* ================================================================== claims
IsFrame == last_op = "process_frame"
ResultIds(rs) == {rs[k].id : k \in 1..Len(rs)}
Methods(rs) == {rs[k].method : k \in 1..Len(rs)}
Thr == Frac(IouThresholdNum, IouThresholdDen)

\* C1: process_frame invokes the detector exactly when the incremented frame
\* counter is 1, or is a multiple of redetect_interval, or no track was live
\* at the start of the call; on every other frame the detector is not
\* invoked, no identity is allocated and every result entry comes from a
\* visual tracker.
C1_DetectorIff ==
    [][IsFrame' =>
         /\ frame_count' = frame_count + 1
         /\ yolo_called' <=> \/ frame_count' = 1
                             \/ frame_count' % redetect_interval = 0
                             \/ DOMAIN tracked_persons = {}
         /\ ~yolo_called' =>
               /\ detections' = <<>>
               /\ next_id' = next_id
               /\ Methods(results') \subseteq {"tracker"}
               /\ DOMAIN advance_out' = DOMAIN tracked_persons]_vars

\* the detector ran on a frame that is neither the first nor on the cadence,
\* because no track was live
C1_Witness ==
    /\ IsFrame /\ yolo_called
    /\ frame_count > 1
    /\ frame_count % redetect_interval # 0

\* C2: with a detector stub that always returns one detection matching the
\* sole track and a visual tracker that always succeeds, the detector path is
\* taken exactly on frame 1 and on the multiples of redetect_interval, the
\* tracker-only path on all other frames, and identity 1 is the only one
\* issued.
C2_Cadence ==
    IsFrame =>
        /\ yolo_called <=> (frame_count = 1 \/ frame_count % redetect_interval = 0)
        /\ ~yolo_called => Methods(results) = {"tracker"}
        /\ yolo_called => "yolo" \in Methods(results)
        /\ next_id = 2
        /\ DOMAIN tracked_persons = {1}
        /\ ResultIds(results) = {1}

\* frame 90 of the run with redetect_interval = 30 took the detector path
C2_Witness ==
    /\ IsFrame /\ yolo_called
    /\ redetect_interval = DefaultInterval
    /\ frame_count = 3 * DefaultInterval

\* C3: a detector call that returns no detections is handled like a
\* tracker-only frame: every live track is advanced by its visual tracker, a
\* track is removed only when that advance failed and took it over the loss
\* limit, no identity is allocated and every result entry has provenance
\* tracker.
C3_EmptyDetection ==
    [][(IsFrame' /\ yolo_called' /\ detections' = <<>>) =>
         /\ DOMAIN advance_out' = DOMAIN tracked_persons
         /\ next_id' = next_id
         /\ Methods(results') \subseteq {"tracker"}
         /\ DOMAIN tracked_persons' \subseteq DOMAIN tracked_persons
         /\ \A i \in DOMAIN tracked_persons :
               /\ advance_out'[i].success =>
                     /\ i \in DOMAIN tracked_persons'
                     /\ i \in ResultIds(results')
                     /\ tracked_persons'[i].bbox = FromCvBbox(advance_out'[i].cv_bbox)
                     /\ tracked_persons'[i].frames_since_detection =
                           tracked_persons[i].frames_since_detection + 1
               /\ i \notin DOMAIN tracked_persons' =>
                     /\ ~advance_out'[i].success
                     /\ tracked_persons[i].lost_frames + 1 > LostLimit
               /\ (~advance_out'[i].success /\ i \in DOMAIN tracked_persons') =>
                     /\ i \notin ResultIds(results')
                     /\ tracked_persons'[i].bbox = tracked_persons[i].bbox]_vars

\* a redetection on a later frame found nobody while two tracks were live:
\* one is reported by its tracker, the other failed and stays
C3_Witness ==
    /\ IsFrame /\ yolo_called /\ detections = <<>>
    /\ frame_count > 1
    /\ DOMAIN tracked_persons = {1, 2}
    /\ ResultIds(results) = {1}

\* C4: the list process_frame returns holds at most one entry per track id.
C4_OneEntryPerTrack ==
    \A k \in 1..Len(results) : \A l \in 1..Len(results) :
        results[k].id = results[l].id => k = l

\* The association as the claim words it: the detections in input order, each
\* taking, among the tracks no earlier detection took, the one of highest
\* IoU (the first in iteration order among equals) if that IoU is strictly
\* above the threshold.  RefAssign(tp, dets, k)[j] is the track of detection
\* j <= k, None when it has none.
\* the track a detection takes among the free ones, None when it takes none
RefChoice(tp, det, free) ==
    LET top == {t \in free : \A u \in free :
                   ~FracGT(calc_iou(det.bbox, tp[u].bbox),
                           calc_iou(det.bbox, tp[t].bbox))}
    IN  IF top # {} /\ FracGT(calc_iou(det.bbox, tp[MinOf(top)].bbox), Thr)
        THEN MinOf(top) ELSE None

RECURSIVE RefAssign(_, _, _)
RefAssign(tp, dets, k) ==
    IF k = 0 THEN <<>>
    ELSE CHOOSE r \in {Append(prev, RefChoice(tp, dets[k],
                                   DOMAIN tp \ {prev[j] : j \in 1..(k - 1)})) :
                          prev \in {RefAssign(tp, dets, k - 1)}} : TRUE

\* C5: on a detector frame the association is greedy in detection order: each
\* detection takes the not yet matched track of highest IoU, only if that IoU
\* is strictly above iou_threshold, the first iterated among equals; the
\* matched track is confirmed with the detection's box, and a track no
\* detection took is not confirmed.
C5_GreedyAssociation ==
    [][(IsFrame' /\ yolo_called' /\ detections' # <<>>) =>
         \A dets \in {detections'} :
         \A a \in {RefAssign(tracked_persons, dets, Len(dets))} :
             /\ \A k \in 1..Len(dets) :
                   a[k] # None =>
                     /\ \E r \in 1..Len(results') :
                           results'[r] = Result(a[k], dets[k].bbox, dets[k].conf, "yolo")
                     /\ a[k] \in DOMAIN tracked_persons'
                     /\ tracked_persons'[a[k]].bbox = dets[k].bbox
                     /\ tracked_persons'[a[k]].confidence = ConfFull
                     /\ tracked_persons'[a[k]].frames_since_detection = 0
                     /\ tracked_persons'[a[k]].lost_frames = 0
                     /\ a[k] \notin DOMAIN advance_out'
             /\ \A t \in DOMAIN tracked_persons :
                   t \notin {a[k] : k \in 1..Len(dets)} =>
                     /\ t \in DOMAIN advance_out'
                     /\ \A r \in 1..Len(results') :
                           results'[r].id = t => results'[r].method = "tracker"]_vars

\* one detection, two live tracks: track 1 was confirmed by it although
\* track 2 (unmoved, its advance failed) is above the threshold as well
C5_Witness ==
    /\ IsFrame /\ yolo_called /\ Len(detections) = 1
    /\ DOMAIN tracked_persons = {1, 2}
    /\ 1 \notin DOMAIN advance_out
    /\ 2 \in DOMAIN advance_out /\ ~advance_out[2].success
    /\ tracked_persons[1].bbox = detections[1].bbox
    /\ tracked_persons[2].bbox # detections[1].bbox
    /\ FracGT(calc_iou(detections[1].bbox, tracked_persons[2].bbox), Thr)

\* C6: in a session ids are issued as 1, 2, 3, ... in increasing order: a
\* frame's new tracks get exactly the ids next_id .. next_id' - 1, the first
\* id of a session is 1, and an id already issued whose track is gone is
\* never given to a track again.
C6_IdsNeverReused ==
    [][/\ (last_op \in {"init", "reset"} => next_id = 1)
       /\ IsFrame' =>
            /\ next_id' >= next_id
            /\ DOMAIN tracked_persons' \ DOMAIN tracked_persons = next_id..(next_id' - 1)
            /\ \A i \in DOMAIN tracked_persons' : tracked_persons'[i].id = i
            /\ \A i \in 1..(next_id - 1) :
                  i \notin DOMAIN tracked_persons => i \notin DOMAIN tracked_persons']_vars

\* track 1 was terminated and removed, and the next person got id 2
C6_Witness ==
    /\ IsFrame
    /\ DOMAIN tracked_persons = {2}
    /\ next_id = 3

\* C7: lost_frames of every live track equals the number of visual-tracker
\* failures in a row since its last successful advance or detection match.
C7_LostFramesConsecutive ==
    \A i \in DOMAIN tracked_persons :
        tracked_persons[i].lost_frames = consec_failures[i]

\* the number of failures in a row a track reaches in this frame
FailuresInARow(i) ==
    (IF i \in DOMAIN consec_failures THEN consec_failures[i] ELSE 0) + 1

\* C8: a track whose advance fails for the n-th time in a row is still live
\* and active when process_frame returns if n <= 10, and is absent from the
\* live set if n = 11.
C8_TerminatedOnEleventhFailure ==
    [][IsFrame' =>
         \A i \in DOMAIN advance_out' :
            ~advance_out'[i].success =>
               /\ FailuresInARow(i) <= LostLimit =>
                     /\ i \in DOMAIN tracked_persons'
                     /\ tracked_persons'[i].is_active
               /\ FailuresInARow(i) > LostLimit =>
                     i \notin DOMAIN tracked_persons']_vars

\* C9: when process_frame returns, every track of tracked_persons is active,
\* every result entry refers to a track of tracked_persons, and a track that
\* was removed is not inserted again.
C9_CleanupEveryFrame ==
    [][IsFrame' =>
         /\ \A i \in DOMAIN tracked_persons' : tracked_persons'[i].is_active
         /\ ResultIds(results') \subseteq DOMAIN tracked_persons'
         /\ \A i \in DOMAIN tracked_persons \ DOMAIN tracked_persons' :
               /\ i \notin ResultIds(results')
               /\ i < next_id'
         /\ \A i \in DOMAIN tracked_persons' \ DOMAIN tracked_persons :
               i >= next_id]_vars

\* the only track failed for the last time in this frame and is gone
C9_Witness ==
    /\ IsFrame
    /\ tracked_persons = EmptyDict
    /\ DOMAIN advance_out = {1}
    /\ ~advance_out[1].success
    /\ results = <<>>

\* C10: a track created in this frame has confidence 1.0 and
\* frames_since_detection 0 when process_frame returns.
C10_NewTrackFullConfidence ==
    [][IsFrame' =>
         \A i \in DOMAIN tracked_persons' \ DOMAIN tracked_persons :
            /\ tracked_persons'[i].confidence = ConfFull
            /\ tracked_persons'[i].frames_since_detection = 0]_vars

\* the tracks a detection confirmed or created in the last frame
YoloIds(rs) == {rs[k].id : k \in {j \in 1..Len(rs) : rs[j].method = "yolo"}}

\* max(0.3, 1.0 - 0.02 n) in hundredths, written out by cases
ExpectedConfidence(n) == IF n >= FloorAt THEN ConfFloor ELSE ConfFull - ConfStep * n

\* C11: after n successful tracker-only advances of a track since its last
\* detection confirmation (failed advances not counted) its confidence is
\* max(0.3, 1.0 - 0.02 n): in every frame the count n of a live track is 0
\* after a confirmation or creation, grows by one with a successful advance
\* and is kept by a failed one, and the confidence is the value for n; it
\* does not increase between confirmations, stays within [0.3, 1.0] and is
\* 0.3 from n = 35 on.
C11_ConfidenceDecay ==
    [][IsFrame' =>
         \A i \in DOMAIN tracked_persons' :
           \A fresh \in {(i \in YoloIds(results')) \/ (i \notin DOMAIN tracked_persons)} :
           \A n \in {(IF fresh THEN 0 ELSE tracked_persons[i].frames_since_detection)
                      + (IF i \in DOMAIN advance_out' /\ advance_out'[i].success
                         THEN 1 ELSE 0)} :
              /\ tracked_persons'[i].frames_since_detection = n
              /\ tracked_persons'[i].confidence = ExpectedConfidence(n)
              /\ tracked_persons'[i].confidence \in ConfFloor..ConfFull
              /\ n >= FloorAt => tracked_persons'[i].confidence = ConfFloor
              /\ ~fresh => tracked_persons'[i].confidence <= tracked_persons[i].confidence]_vars

\* a track advanced successfully 36 times since its confirmation sits on the
\* floor
C11_Witness ==
    /\ IsFrame
    /\ \E i \in DOMAIN tracked_persons :
          /\ tracked_persons[i].frames_since_detection = FloorAt + 1
          /\ tracked_persons[i].confidence = ConfFloor
          /\ i \in DOMAIN advance_out /\ advance_out[i].success

\* C12: when the visual tracker rejects the seed region of an unmatched
\* detection (tracker.init fails), no track is registered for that detection
\* and no result entry is emitted for it in that frame: no entry with a new
\* identity carries its box, and no more tracks are added than seeds were
\* accepted.
C12_NoTrackOnInitFailure ==
    [][IsFrame' =>
         /\ \A k \in DOMAIN init_out' :
               init_out'[k] # "ok" =>
                  \A j \in 1..Len(results') :
                     ~ /\ results'[j].method = "yolo"
                       /\ results'[j].id >= next_id
                       /\ results'[j].bbox = detections'[k].bbox
         /\ Cardinality({i \in DOMAIN tracked_persons' : i >= next_id})
               <= Cardinality({k \in DOMAIN init_out' : init_out'[k] = "ok"})]_vars

\* C13: a seed failure of one detection is recovered locally: process_frame
\* completes for that frame (cleanup included) and the process_video run
\* goes on with the next frame.
C13_InitFailureRecovered ==
    [][(/\ IsFrame'
        /\ \E k \in DOMAIN init_out' : init_out'[k] # "ok"
        /\ raised_by' \in {"none", "init"}) =>
         /\ ~frame_raised'
         /\ \A i \in DOMAIN tracked_persons' : tracked_persons'[i].is_active
         /\ pc = "running" => pc' = "running"]_vars

\* C14: with skip_frames = k the frame read at 0-indexed position p is
\* handed to process_frame exactly when p mod (k+1) = 0; any other frame
\* read changes nothing but the read position: tracker state, statistics,
\* sink and callbacks are untouched; a run that reaches the end of an
\* N-frame source has total_frames = ceil(N / (k+1)).
C14_SkipFrames ==
    [][/\ (pc = "running" /\ vp_frame_count' = vp_frame_count + 1) =>
            IF vp_frame_count % (job.skip_frames + 1) = 0
            THEN /\ last_op' = "process_frame"
                 /\ frame_count' = frame_count + 1
                 /\ stats'.total_frames = stats.total_frames + 1
            ELSE UNCHANGED <<tracker_vars, stats, written, preview_calls,
                             progress_calls, elapsed, pc, should_stop,
                             cap_released, writer_released>>
       /\ exit_reason' = "eof" =>
            stats'.total_frames =
               (job.n_frames + job.skip_frames) \div (job.skip_frames + 1)]_vars

\* a 4-frame source read to its end with skip_frames = 2: positions 0 and 3
\* were processed
C14_Witness ==
    /\ exit_reason = "eof"
    /\ job.n_frames = 4 /\ job.skip_frames = 2
    /\ vp_frame_count = 4
    /\ stats.total_frames = 2
    /\ frame_count = 2

\* C15: once stop() has been called between two loop iterations, no further
\* frame is read or processed; the only thing process_video does is return
\* normally with the statistics as they are (total_frames = n), the source
\* released and the sink, if any, released.
C15_Cancellation ==
    [][(pc = "running" /\ should_stop) =>
         /\ vp_frame_count' = vp_frame_count
         /\ frame_count' = frame_count
         /\ stats' = stats
         /\ written' = written
         /\ \/ pc' = "running" /\ should_stop'
            \/ /\ pc' = "returned"
               /\ exit_reason' = "stop"
               /\ ~is_processing'
               /\ cap_released' = 1
               /\ writer_released' = IF writer_opened THEN 1 ELSE 0]_vars

\* stop() after 2 of 4 frames: the run returned with total_frames = 2 and
\* both handles released
C15_Witness ==
    /\ pc = "returned" /\ exit_reason = "stop"
    /\ job.n_frames = 4 /\ job.skip_frames = 0
    /\ vp_frame_count = 2
    /\ stats.total_frames = 2
    /\ writer_opened /\ writer_released = 1 /\ cap_released = 1

\* C16: once stop() has been called on a processor whose worker thread has
\* been launched, the stop signal is never cleared while the run lasts.
C16_StopLatch ==
    [][(should_stop /\ pc \in {"launched", "running"}) => should_stop']_vars

\* C17: on every way out of process_video after the source was opened (end
\* of stream, cancellation, an exception of the detector, of a visual
\* tracker, of a callback or of a sink write) the source has been released
\* exactly once and the sink, if one was opened, exactly once; nothing is
\* released while the loop runs.
C17_ReleasedOnce ==
    /\ (pc \in {"returned", "raised"} /\ cap_opened) =>
          /\ cap_released = 1
          /\ writer_released = IF writer_opened THEN 1 ELSE 0
    /\ pc = "running" => (cap_released = 0 /\ writer_released = 0)

\* a run with a sink that ended in an exception after two frames had been
\* written
C17_Witness ==
    /\ pc = "raised" /\ exit_reason = "exception"
    /\ cap_opened /\ writer_opened
    /\ written = 2
    /\ cap_released = 1 /\ writer_released = 1

\* C18: when the source cannot be opened process_video raises before any
\* frame is read or handed to process_frame, before a sink is opened and
\* before a callback is called, and every statistic is 0.
C18_OpenFailure ==
    (pc \notin {"idle", "launched"} /\ ~job.can_open) =>
        /\ pc = "raised"
        /\ exit_reason = "open_failed"
        /\ stats = ZeroStats
        /\ vp_frame_count = 0
        /\ frame_count = 0
        /\ ~cap_opened
        /\ ~writer_opened
        /\ written = 0
        /\ preview_calls = 0
        /\ progress_calls = 0

\* a call with an output path and both callbacks failed on the source
C18_Witness ==
    /\ pc = "raised" /\ exit_reason = "open_failed"
    /\ job.output /\ job.progress /\ job.preview

\* C19: every processed frame adds one to total_frames; when process_frame
\* returned, yolo_frames grows by one iff the result holds a detector entry,
\* otherwise tracker_frames grows by one iff it holds a tracker entry, and
\* an empty result adds to neither.
C19_FrameClassification ==
    [][IsFrame' =>
         /\ stats'.total_frames = stats.total_frames + 1
         /\ ~frame_raised' =>
              /\ stats'.yolo_frames = stats.yolo_frames
                    + (IF "yolo" \in Methods(results') THEN 1 ELSE 0)
              /\ stats'.tracker_frames = stats.tracker_frames
                    + (IF "yolo" \notin Methods(results')
                          /\ "tracker" \in Methods(results') THEN 1 ELSE 0)
              /\ results' = <<>> =>
                    /\ stats'.yolo_frames = stats.yolo_frames
                    /\ stats'.tracker_frames = stats.tracker_frames]_vars

\* a run in which each of the three classes occurred: three frames
\* processed, one counted as detector frame, one as tracker frame, and the
\* last one with an empty result
C19_Witness ==
    /\ IsFrame /\ ~frame_raised
    /\ results = <<>>
    /\ stats.total_frames = 3
    /\ stats.yolo_frames = 1
    /\ stats.tracker_frames = 1

\* C20: yolo_frames counts the processed frames on which the detector was
\* invoked and tracker_frames those on which only the tracker pass ran,
\* whatever the detector returned.
C20_DetectorPassCounted ==
    [][(IsFrame' /\ ~frame_raised') =>
         /\ stats'.yolo_frames = stats.yolo_frames + (IF yolo_called' THEN 1 ELSE 0)
         /\ stats'.tracker_frames = stats.tracker_frames
                                      + (IF yolo_called' THEN 0 ELSE 1)]_vars

\* C21: after every processed frame total_persons is next_id - 1, the
\* highest identity issued in this run and the number of tracks created in
\* it: it grows by the number of identities that appear for the first time
\* in the frame's result, never decreases, and no live or reported identity
\* exceeds it; the removal of a track does not change it.
C21_TotalPersons ==
    [][(IsFrame' /\ ~frame_raised') =>
         \A created \in {{i \in ResultIds(results') : i >= next_id}} :
           /\ stats'.total_persons = next_id' - 1
           /\ stats'.total_persons = stats.total_persons + Cardinality(created)
           /\ stats'.total_persons >= stats.total_persons
           /\ \A i \in DOMAIN tracked_persons' \cup ResultIds(results') :
                 i <= stats'.total_persons
           /\ created # {} => stats'.total_persons \in created
           /\ created = {} => stats'.total_persons = stats.total_persons]_vars

\* the frame on which the only track of the run was removed: nobody is live,
\* one person is still counted
C21_Witness ==
    /\ IsFrame /\ pc = "running"
    /\ tracked_persons = EmptyDict
    /\ \E i \in DOMAIN advance_out : ~advance_out[i].success
    /\ stats.total_persons = 1

\* C22: a supplied progress callback is called exactly once after each
\* processed frame (unless an exception ended the frame before line 124)
\* and at no other time, in particular not for a skipped frame; its first
\* argument is the number of frames read so far, larger than in the call
\* before, its second the frame count of the source, its third the
\* statistics, whose total_frames is the number of calls made so far.
C22_ProgressCallback ==
    [][\A reached \in {/\ pc = "running"
                       /\ vp_frame_count' = vp_frame_count + 1
                       /\ last_op' = "process_frame"
                       /\ job.progress
                       /\ raised_by' \in {"none", "progress"}} :
         IF reached
         THEN /\ progress_calls' = progress_calls + 1
              /\ progress_args' = <<[current |-> vp_frame_count',
                                     total |-> job.n_frames,
                                     stats |-> stats']>>
              /\ progress_args'[1].stats.total_frames = progress_calls'
              /\ progress_args # <<>> =>
                    progress_args'[1].current > progress_args[1].current
         ELSE /\ progress_calls' = progress_calls
              /\ progress_args' = progress_args]_vars

\* skip_frames = 2: the second call came after the fourth frame read
C22_Witness ==
    /\ IsFrame
    /\ job.progress /\ job.skip_frames = 2
    /\ progress_calls = 2
    /\ progress_args # <<>>
    /\ progress_args[1].current = 4
    /\ progress_args[1].stats.total_frames = 2

C24_EndToEnd ==
    /\ IsFrame =>
          /\ DOMAIN tracked_persons = {1}
          /\ next_id = 2
          /\ ResultIds(results) = {1}
          /\ frame_count = 1 =>
                /\ yolo_called
                /\ \E k \in 1..Len(results) :
                      results[k].id = 1 /\ results[k].method = "yolo"
          /\ frame_count > 1 =>
                /\ ~yolo_called
                /\ Len(results) = 1
                /\ results[1].method = "tracker"
          /\ stats.total_persons = 1
          /\ stats.yolo_frames = 1
          /\ stats.total_frames = frame_count
    /\ exit_reason = "eof" =>
          /\ pc = "returned"
          /\ stats.total_frames = job.n_frames
          /\ stats.total_persons = 1
          /\ stats.yolo_frames = 1
          /\ stats.tracker_frames = job.n_frames - 1

\* the run of 10 frames has returned
C24_Witness ==
    /\ exit_reason = "eof"
    /\ job.n_frames = 10
    /\ frame_count = 10
    /\ stats.total_persons = 1
    /\ stats.yolo_frames = 1

FracEq(a, b) == a.num * b.den = b.num * a.den
ValidBox(b) == b[1] < b[3] /\ b[2] < b[4]
OrderedBox(b) == b[1] <= b[3] /\ b[2] <= b[4]

\* C25: calc_iou(a, b) = calc_iou(b, a) for all boxes with coordinates in
\* 0..MaxCoord, and calc_iou(a, a) = 1 for every box with x1 < x2, y1 < y2.
C25_IouSymmetric ==
    iou_out # <<>> =>
        /\ FracEq(iou_out[1].ab, iou_out[1].ba)
        /\ (iou_in[1] = iou_in[2] /\ ValidBox(iou_in[1])) =>
              /\ iou_out[1].ab.num = iou_out[1].ab.den
              /\ iou_out[1].ab.den > 0

\* two different boxes of different areas that overlap
C25_Witness ==
    /\ iou_out # <<>>
    /\ iou_in = <<(<<0, 0, 2, 2>>), (<<1, 0, 2, 1>>)>>
    /\ iou_out[1].ab = Frac(1, 4)

\* the unit cells a box covers
Cells(b) == {<<x, y>> : x \in b[1]..(b[3] - 1), y \in b[2]..(b[4] - 1)}

\* C26: for boxes with x1 <= x2 and y1 <= y2 calc_iou returns the number
\* of cells in both boxes over the number of cells in either, a value in
\* [0, 1]; 0 when the boxes share no cell (apart or touching at an edge),
\* and 0 when they cover no cell at all (union area 0).
C26_IouValue ==
    (iou_out # <<>> /\ OrderedBox(iou_in[1]) /\ OrderedBox(iou_in[2])) =>
        \A inter \in {Cardinality(Cells(iou_in[1]) \cap Cells(iou_in[2]))} :
        \A union \in {Cardinality(Cells(iou_in[1]) \cup Cells(iou_in[2]))} :
        \A iou \in {iou_out[1].ab} :
           /\ iou.den > 0
           /\ 0 <= iou.num /\ iou.num <= iou.den
           /\ union > 0 => FracEq(iou, Frac(inter, union))
           /\ inter = 0 => iou.num = 0
           /\ union = 0 => iou = FracZero

\* two degenerate boxes: the union area is 0 and the result is 0
C26_Witness ==
    /\ iou_out # <<>>
    /\ iou_in = <<(<<0, 0, 0, 2>>), (<<0, 0, 2, 0>>)>>
    /\ iou_out[1].ab = FracZero

\* C27: degenerate or inverted boxes never enter the track state: every
\* live track has a box with x1 < x2 and y1 < y2.
C27_TrackBoxesValid ==
    \A i \in DOMAIN tracked_persons : ValidBox(tracked_persons[i].bbox)

\* the ways a run ends that are failures
FailureReasons == {"open_failed", "read_failed", "exception"}

\* C28: cancellation is distinguishable from every failure path: of two
\* runs, one ended by stop() and one ended by a failure (a source read
\* failure in mid-stream included), the caller never gets the same outcome.
C28_CancelDistinguishable ==
    (/\ pc \in {"returned", "raised"}
     /\ prev_outcome # <<>>
     /\ \/ prev_outcome[1].how = "stop" /\ exit_reason \in FailureReasons
        \/ prev_outcome[1].how \in FailureReasons /\ exit_reason = "stop")
    => prev_outcome[1].observed # Observed

\* C29: when detector.detect raises, the error leaves process_video: the
\* call ends raising, nothing of the failing frame is written to the sink
\* or given to a callback, of the statistics only total_frames has moved,
\* and no frame is read or processed afterwards.
C29_DetectorFailureFatal ==
    [][/\ (IsFrame' /\ pc = "running" /\ frame_raised' /\ raised_by' = "detect") =>
            /\ pc' = "raised"
            /\ results' = <<>>
            /\ written' = written
            /\ preview_calls' = preview_calls
            /\ progress_calls' = progress_calls
            /\ progress_args' = progress_args
            /\ stats' = [stats EXCEPT !.total_frames = @ + 1]
       /\ (pc = "raised" /\ raised_by = "detect") =>
            /\ pc' = "raised"
            /\ vp_frame_count' = vp_frame_count
            /\ frame_count' = frame_count
            /\ stats' = stats]_vars

\* the detector raised on the second frame processed, after the first one
\* had been written and reported
C29_Witness ==
    /\ IsFrame /\ pc = "raised" /\ raised_by = "detect"
    /\ yolo_called
    /\ stats.total_frames = 2
    /\ stats.yolo_frames = 1
    /\ written = 1
    /\ progress_calls = 1

\* C30: reset() leaves no live track, the identity counter at 1 and the
\* frame counter at 0, whatever the state before; the next process_frame
\* invokes the detector and numbers its tracks from 1; and from then on the
\* tracker gives, frame after frame, what a newly constructed one gives on
\* the same frames.
C30_ResetIsFresh ==
    /\ last_op = "reset" =>
          /\ tracked_persons = EmptyDict
          /\ next_id = 1
          /\ frame_count = 0
    /\ (IsFrame /\ frame_count = 1) =>
          /\ yolo_called
          /\ ResultIds(results) \subseteq 1..Len(detections)
          /\ detections # <<>> => 1 \in ResultIds(results)
    /\ IsFrame =>
          /\ twin.results = results
          /\ twin.tracked_persons = tracked_persons
          /\ twin.next_id = next_id
          /\ twin.frame_count = frame_count

\* two frames after a reset that gave up a session of two frames with two
\* identities issued and a live track: identities 1 and 2 are issued again
C30_Witness ==
    /\ IsFrame
    /\ prev_outcome # <<>>
    /\ prev_outcome[1].frames >= 2
    /\ prev_outcome[1].issued = 2
    /\ prev_outcome[1].live # {}
    /\ frame_count = 2
    /\ next_id = 3
    /\ twin.results = results

\* C31: on a detector frame with at least one detection, every track that
\* existed at the start of the frame is handled exactly once: either a
\* detection confirms it, and then the visual tracker is not run on it, or
\* the visual tracker is run on it once; it has at most one result entry.
C31_HandledOnce ==
    [][(IsFrame' /\ yolo_called' /\ detections' # <<>>) =>
         \A i \in DOMAIN tracked_persons :
            /\ (i \in YoloIds(results')) # (i \in DOMAIN advance_out')
            /\ Cardinality({k \in 1..Len(results') : results'[k].id = i}) <= 1
            /\ i \in YoloIds(results') =>
                  /\ tracked_persons'[i].frames_since_detection = 0
                  /\ tracked_persons'[i].confidence = ConfFull
                  /\ \E k \in 1..Len(detections') :
                        tracked_persons'[i].bbox = detections'[k].bbox]_vars

\* a detector frame in which one earlier track was confirmed by a detection
\* and another one, left unmatched, was advanced by its visual tracker
C31_Witness ==
    /\ IsFrame /\ yolo_called /\ detections # <<>>
    /\ \E i \in YoloIds(results) : i \notin DOMAIN advance_out
    /\ \E j \in DOMAIN advance_out : j \notin YoloIds(results)

\* C32: a failed advance leaves the track in place: box, confidence and
\* frames_since_detection are unchanged, lost_frames is one more, the track
\* has no result entry for that frame, and it stays in the live set unless
\* lost_frames has passed 10.
C32_FailedAdvance ==
    [][IsFrame' =>
         \A i \in DOMAIN advance_out' :
            ~advance_out'[i].success =>
               /\ i \notin ResultIds(results')
               /\ i \in DOMAIN tracked_persons =>
                     /\ i \in DOMAIN tracked_persons' =>
                           tracked_persons'[i] =
                              [tracked_persons[i] EXCEPT !.lost_frames = @ + 1]
                     /\ i \notin DOMAIN tracked_persons' <=>
                           tracked_persons[i].lost_frames + 1 > LostLimit]_vars

\* C33: every process_video call starts from a clean slate, whatever the
\* previous call on the same processor left: when the first frame is about
\* to be read the statistics are all 0 and the tracker has no track, its
\* identity counter is 1 and its frame counter 0; the stop flag left by the
\* previous call is cleared; and nothing of the previous call is counted:
\* no more frames are counted than this call has read.
C33_CleanSlate ==
    /\ (pc = "running" /\ vp_frame_count = 0) =>
          /\ stats = ZeroStats
          /\ tracked_persons = EmptyDict
          /\ next_id = 1
          /\ frame_count = 0
    /\ last_op = "begin" => ~should_stop
    /\ pc \in {"running", "returned", "raised"} =>
          /\ stats.total_frames <= vp_frame_count
          /\ frame_count <= vp_frame_count
          /\ stats.total_persons <= next_id - 1

\* the second call has just passed its first lines; the first call was
\* stopped after it had counted frames and persons
C33_Witness ==
    /\ last_op = "begin" /\ pc = "running"
    /\ prev_outcome # <<>>
    /\ prev_outcome[1].how = "stop"
    /\ prev_outcome[1].observed.stats.total_frames >= 1
    /\ prev_outcome[1].observed.stats.total_persons >= 1
    /\ stats = ZeroStats
    /\ next_id = 1

\* C34: avg_fps is recomputed after every processed frame as processed
\* frames over elapsed time, with or without a progress callback: after a
\* frame processed at a positive elapsed time it is that quotient, and a
\* run that returns after such a frame returns an avg_fps that is not 0.
C34_AvgFps ==
    [][/\ (IsFrame' /\ pc = "running" /\ raised_by' = "none" /\ elapsed' > 0) =>
            stats'.avg_fps = Frac(stats'.total_frames, elapsed')
       /\ (pc' = "returned" /\ stats'.total_frames >= 1 /\ elapsed' > 0) =>
            stats'.avg_fps.num # 0]_vars

\* C35: process_video terminates.  On a finite source the call, once
\* started, comes to return the statistics, and a run that saw the end of
\* the source has returned; and whenever the stop flag is set while the
\* loop is running, on a source that never ends too, the call returns
\* without reading another frame (a frame in flight is one step here).
C35_Terminates ==
    /\ (pc = "launched" /\ job.n_frames # Endless) ~> (pc = "returned")
    /\ (pc = "running" /\ should_stop) ~> (pc = "returned")
    /\ [](exit_reason = "eof" => pc = "returned" /\ vp_frame_count = job.n_frames)
    /\ [][(pc = "running" /\ should_stop) =>
             /\ vp_frame_count' = vp_frame_count
             /\ stats' = stats]_vars

\* a run on a source that never ends has returned after stop(), having
\* processed frames
C35_Witness ==
    /\ pc = "returned"
    /\ exit_reason = "stop"
    /\ job.n_frames = Endless
    /\ stats.total_frames >= 1

\* the entries of a result list that come from a detection
YoloEntries(rs) == {k \in 1..Len(rs) : rs[k].method = "yolo"}

\* C36: matching within a detector frame is one-to-one: there are as many
\* detector-provenance entries as detections, they carry pairwise distinct
\* identities, every detection is the box and score of exactly one of them,
\* and the identities allocated are as many as the detections that matched
\* no earlier track.
C36_OneToOne ==
    [][(IsFrame' /\ yolo_called' /\ detections' # <<>>) =>
         /\ Cardinality(YoloEntries(results')) = Len(detections')
         /\ Cardinality(YoloIds(results')) = Len(detections')
         /\ \A k \in 1..Len(detections') :
               Cardinality({j \in YoloEntries(results') :
                               /\ results'[j].bbox = detections'[k].bbox
                               /\ results'[j].conf = detections'[k].conf}) = 1
         /\ next_id' - next_id =
               Len(detections')
                  - Cardinality(YoloIds(results') \cap DOMAIN tracked_persons)
         /\ YoloIds(results') \ DOMAIN tracked_persons = next_id..(next_id' - 1)]_vars

\* a frame with two detections that overlap above the threshold, one
\* matched to an earlier track and one that started a track
C36_Witness ==
    /\ IsFrame /\ yolo_called
    /\ Len(detections) = 2
    /\ FracGT(calc_iou(detections[1].bbox, detections[2].bbox), Thr)
    /\ \E i \in YoloIds(results) : i \notin DOMAIN advance_out
    /\ \E j \in YoloIds(results) : j \in DOMAIN advance_out /\ j = next_id - 1

\* C37: is_processing is true only while a process_video call is being
\* executed: it is false once the call has returned or raised, on every
\* path, the failure to open the source included.
C37_ProcessingFlag ==
    /\ is_processing => pc = "running"
    /\ pc \in {"returned", "raised"} => ~is_processing

\* the source positions (0-indexed) at which the cadence forces the detector
\* when skip_frames = k: 0 and (m * interval - 1) * (k + 1)
ForcedPosition(p, interval, k) ==
    \/ p = 0
    \/ \E m \in 1..(p + 1) : p = (m * interval - 1) * (k + 1)

\* C38: during a run the frame counter of the tracker equals total_frames
\* after every processed frame, skipped frames advancing neither, so that
\* the cadence counts processed frames: the j-th processed frame is the
\* one at source position (j - 1)(k + 1), and the detector is invoked at
\* the positions 0 and (m * redetect_interval - 1)(k + 1), and elsewhere
\* only when no track is live.
C38_CadenceInProcessedFrames ==
    [][/\ frame_count' = stats'.total_frames
       /\ (pc = "running" /\ vp_frame_count' = vp_frame_count + 1 /\ ~IsFrame') =>
            /\ frame_count' = frame_count
            /\ stats' = stats
       /\ (pc = "running" /\ IsFrame') =>
            /\ vp_frame_count = (frame_count' - 1) * (job.skip_frames + 1)
            /\ ForcedPosition(vp_frame_count, redetect_interval, job.skip_frames)
                  => yolo_called'
            /\ (yolo_called' /\ DOMAIN tracked_persons # {})
                  => ForcedPosition(vp_frame_count, redetect_interval,
                                    job.skip_frames)]_vars

\* with skip_frames = 1 and redetect_interval = 2 the detector was forced at
\* source position 2, the second frame processed, while a track was live
C38_Witness ==
    /\ IsFrame /\ yolo_called
    /\ job.skip_frames = 1
    /\ redetect_interval = 2
    /\ vp_frame_count = 3
    /\ frame_count = 2
    /\ stats.total_frames = 2
    /\ \E i \in DOMAIN tracked_persons : i \notin DOMAIN advance_out

\* the counters of the statistics do not decrease from st to st2
CountersGrow(st, st2) ==
    /\ st2.total_frames >= st.total_frames
    /\ st2.yolo_frames >= st.yolo_frames
    /\ st2.tracker_frames >= st.tracker_frames
    /\ st2.total_persons >= st.total_persons

\* yolo_frames + tracker_frames <= total_frames <= frames read, and a step
\* of the run increments at most one of yolo_frames and tracker_frames
CountersBounded ==
    /\ stats'.yolo_frames + stats'.tracker_frames <= stats'.total_frames
    /\ stats'.total_frames <= vp_frame_count'
    /\ (stats'.yolo_frames - stats.yolo_frames)
          + (stats'.tracker_frames - stats.tracker_frames) <= 1

\* C39 as stated: at every point of a run yolo_frames + tracker_frames <=
\* total_frames <= frames read, each processed frame increments at most
\* one of yolo_frames and tracker_frames, and no statistic, avg_fps
\* included, ever decreases within the run.
C39_NoStatisticDecreases ==
    [][pc = "running" =>
         /\ CountersBounded
         /\ CountersGrow(stats, stats')
         /\ ~FracGT(stats.avg_fps, stats'.avg_fps)]_vars

\* C39, amended: the same bounds, and the four counters total_frames,
\* yolo_frames, tracker_frames and total_persons never decrease within a
\* run; avg_fps, a running average, may.
C39_CountersMonotone ==
    [][pc = "running" =>
         /\ CountersBounded
         /\ CountersGrow(stats, stats')]_vars

\* a run with a skipped frame, a frame counted for the detector and one
\* counted for the trackers, reported with a positive avg_fps
C39_Witness ==
    /\ IsFrame
    /\ stats.yolo_frames = 1
    /\ stats.tracker_frames = 1
    /\ stats.total_frames = 2
    /\ vp_frame_count = 3
    /\ stats.avg_fps.num > 0

====
